---- MODULE Spec2Model ----
(***************************************************************************)
(* Model of pymagicc/definitions/__init__.py: the replacement engine       *)
(* (_replace_from_replacement_dict) and the three mapping builders          *)
(* (regions, MAGICC7 variables, MAGICC6 variables) with their converters.   *)
(*                                                                         *)
(* Python strings are TLA+ strings (Len, \o and SubSeq act on them          *)
(* character by character).  A Python dict is the sequence of its           *)
(* <<key, value>> items in insertion order, keys unique.  A value passed to *)
(* or returned from a function is tagged with its Python type:              *)
(* [kind |-> "str" | "list" | "dict" | "none", val |-> ...].                *)
(*                                                                         *)
(* A Python for loop over items lo..hi is an operator XRange(acc, lo, hi)  *)
(* that runs the loop body XStep on the items in order.  The range is     *)
(* split in two halves and the first half is evaluated before the second   *)
(* starts, which keeps the evaluation shallow for long dictionaries.       *)
(***************************************************************************)
EXTENDS Integers, Sequences, FiniteSets, TLC

VARIABLES pc, fn, inputs, replacements, inverse, ret

vars == <<pc, fn, inputs, replacements, inverse, ret>>

(***************************************************************************)
(* Bounds.  A dictionary passed to the engine has at most MaxRules items,  *)
(* an input string at most MaxInputLen characters, an input list at most   *)
(* MaxListLen strings.                                                     *)
(***************************************************************************)
MaxRules == 3
MaxInputLen == 2
MaxListLen == 2

\* The ocean temperature layers of the model are 1..MaxLayer (the source
\* builds range(1, 999)); 1, 10 and 100 are among them.
MaxLayer == 110

(***************************************************************************)
(* Python values.                                                          *)
(***************************************************************************)
Str(s) == [kind |-> "str", val |-> s]

List(l) == [kind |-> "list", val |-> l]

Dict(d) == [kind |-> "dict", val |-> d]

None == [kind |-> "none", val |-> ""]

(***************************************************************************)
(* Python str primitives.                                                  *)
(***************************************************************************)
\* t in s
StrIn(t, s) ==
    \E i \in 1..(Len(s) - Len(t) + 1) : SubSeq(s, i, i + Len(t) - 1) = t

\* s.startswith(t)
StartsWith(s, t) == Len(t) <= Len(s) /\ SubSeq(s, 1, Len(t)) = t

\* s.endswith(t)
EndsWith(s, t) ==
    Len(t) <= Len(s) /\ SubSeq(s, Len(s) - Len(t) + 1, Len(s)) = t

RECURSIVE StrReplaceEmpty(_, _)
\* s.replace("", new): new is put before every character and at the end
StrReplaceEmpty(s, new) ==
    IF s = "" THEN new
    ELSE new \o SubSeq(s, 1, 1) \o StrReplaceEmpty(SubSeq(s, 2, Len(s)), new)

RECURSIVE StrReplaceFrom(_, _, _)
StrReplaceFrom(s, old, new) ==
    IF Len(s) < Len(old) THEN s
    ELSE IF SubSeq(s, 1, Len(old)) = old
         THEN new \o StrReplaceFrom(SubSeq(s, Len(old) + 1, Len(s)), old, new)
         ELSE SubSeq(s, 1, 1) \o StrReplaceFrom(SubSeq(s, 2, Len(s)), old, new)

\* s.replace(old, new): all non-overlapping occurrences, left to right
StrReplace(s, old, new) ==
    IF old = "" THEN StrReplaceEmpty(s, new) ELSE StrReplaceFrom(s, old, new)

LowerCase == "abcdefghijklmnopqrstuvwxyz"

UpperCase == "ABCDEFGHIJKLMNOPQRSTUVWXYZ"

UpperChar(c) ==
    IF \E i \in 1..Len(LowerCase) : SubSeq(LowerCase, i, i) = c
    THEN LET i == CHOOSE i \in 1..Len(LowerCase) : SubSeq(LowerCase, i, i) = c
         IN  SubSeq(UpperCase, i, i)
    ELSE c

RECURSIVE Upper(_)
\* s.upper()
Upper(s) ==
    IF s = "" THEN ""
    ELSE UpperChar(SubSeq(s, 1, 1)) \o Upper(SubSeq(s, 2, Len(s)))

(***************************************************************************)
(* Python dict primitives.                                                 *)
(***************************************************************************)
DictKeys(d) == [i \in 1..Len(d) |-> d[i][1]]

DictValues(d) == [i \in 1..Len(d) |-> d[i][2]]

HasKey(d, k) == \E i \in 1..Len(d) : d[i][1] = k

HasValue(d, v) == \E i \in 1..Len(d) : d[i][2] = v

\* d[k], for a key of d
DictGet(d, k) == d[CHOOSE i \in 1..Len(d) : d[i][1] = k][2]

\* d[k] = v: a new key goes to the end, an old key keeps its position
DictSet(d, k, v) ==
    IF HasKey(d, k)
    THEN [i \in 1..Len(d) |-> IF d[i][1] = k THEN <<k, v>> ELSE d[i]]
    ELSE Append(d, <<k, v>>)

\* TRUE, once v has been evaluated
Evaluated(v) == v = v

RECURSIVE InvertRange(_, _, _, _)
InvertRange(d, acc, lo, hi) ==
    IF lo > hi THEN acc
    ELSE IF lo = hi THEN DictSet(acc, d[lo][2], d[lo][1])
    ELSE LET mid == (lo + hi) \div 2
             left == InvertRange(d, acc, lo, mid)
         IN  IF Evaluated(left) THEN InvertRange(d, left, mid + 1, hi)
             ELSE left

\* {v: k for k, v in d.items()}
InvertDict(d) == InvertRange(d, <<>>, 1, Len(d))

(***************************************************************************)
(* _replace_from_replacement_dict                                          *)
(***************************************************************************)
\* Variant of careful_replacement without the edge-case guard.
careful_replacement_unguarded(in_str, old, new, edge_cases) ==
    StrReplace(in_str, old, new)

careful_replacement(in_str, old, new, edge_cases) ==
    IF HasValue(edge_cases, old)
       /\ \E i \in 1..Len(edge_cases) :
             /\ StrIn(edge_cases[i][1], in_str)
             /\ StrIn(edge_cases[i][2], old)
             /\ ~StrIn(edge_cases[i][1], old)
    THEN in_str
    ELSE StrReplace(in_str, old, new)

\* if (r in k) and (r != k): edge_cases[k] = r     (r = keys[j], k = keys[n])
EdgeCasesStep(keys, acc, j, n) ==
    IF StrIn(keys[j], keys[n]) /\ keys[j] # keys[n]
    THEN DictSet(acc, keys[n], keys[j])
    ELSE acc

RECURSIVE EdgeCasesInner(_, _, _, _, _)
\* for k in list(replacements.keys())[j:]: ...
EdgeCasesInner(keys, acc, j, lo, hi) ==
    IF lo > hi THEN acc
    ELSE IF lo = hi THEN EdgeCasesStep(keys, acc, j, lo)
    ELSE LET mid == (lo + hi) \div 2
             left == EdgeCasesInner(keys, acc, j, lo, mid)
         IN  IF Evaluated(left) THEN EdgeCasesInner(keys, left, j, mid + 1, hi)
             ELSE left

RECURSIVE EdgeCasesOuter(_, _, _, _)
\* for j, r in enumerate(replacements.keys()): ...
EdgeCasesOuter(keys, acc, lo, hi) ==
    IF lo > hi THEN acc
    ELSE IF lo = hi THEN EdgeCasesInner(keys, acc, lo, lo, Len(keys))
    ELSE LET mid == (lo + hi) \div 2
             left == EdgeCasesOuter(keys, acc, lo, mid)
         IN  IF Evaluated(left) THEN EdgeCasesOuter(keys, left, mid + 1, hi)
             ELSE left

EdgeCases(d) == EdgeCasesOuter(DictKeys(d), <<>>, 1, Len(d))

\* the body of the replacement loop for the item (old, new) = d[i]
ReplaceStep(inputs_return, d, edge_cases, i) ==
    IF inputs_return.kind = "list"
    THEN List([n \in 1..Len(inputs_return.val) |->
                careful_replacement(inputs_return.val[n],
                                    d[i][1], d[i][2], edge_cases)])
    ELSE Str(careful_replacement(inputs_return.val,
                                 d[i][1], d[i][2], edge_cases))

RECURSIVE ReplaceRange(_, _, _, _, _)
\* for old, new in replacements.items(): ...
ReplaceRange(inputs_return, d, edge_cases, lo, hi) ==
    IF lo > hi THEN inputs_return
    ELSE IF lo = hi THEN ReplaceStep(inputs_return, d, edge_cases, lo)
    ELSE LET mid == (lo + hi) \div 2
             left == ReplaceRange(inputs_return, d, edge_cases, lo, mid)
         IN  IF Evaluated(left)
             THEN ReplaceRange(left, d, edge_cases, mid + 1, hi)
             ELSE left

\* Variant of the call frame that reads the inverse flag the wrong way round.
replace_from_replacement_dict_frame_flipped(in, d, inv) ==
    LET r == IF ~inv THEN InvertDict(d) ELSE d
        edge_cases == EdgeCases(r)
    IN  [ret |-> ReplaceRange(in, r, edge_cases, 1, Len(r)),
         inputs |-> in,
         replacements |-> d]

\* Variant of the call frame that works on the caller's object, without
\* the deepcopy.
replace_from_replacement_dict_frame_in_place(in, d, inv) ==
    LET r == IF inv THEN InvertDict(d) ELSE d
        edge_cases == EdgeCases(r)
    IN  [ret |-> ReplaceRange(in, r, edge_cases, 1, Len(r)),
         inputs |-> ReplaceRange(in, r, edge_cases, 1, Len(r)),
         replacements |-> d]

\* The call frame after the body has run: the returned value and the
\* caller's two objects.  deepcopy gives inputs_return its own object and
\* the inversion rebinds the local name, so neither caller object is written.
replace_from_replacement_dict_frame(in, d, inv) ==
    LET r == IF inv THEN InvertDict(d) ELSE d
        edge_cases == EdgeCases(r)
    IN  [ret |-> ReplaceRange(in, r, edge_cases, 1, Len(r)),
         inputs |-> in,
         replacements |-> d]

replace_from_replacement_dict(in, d, inv) ==
    replace_from_replacement_dict_frame(in, d, inv).ret

(***************************************************************************)
(* Input domains of the generic engine calls.                              *)
(***************************************************************************)
RECURSIVE StringsOfLen(_, _)
StringsOfLen(alphabet, n) ==
    IF n = 0 THEN {""}
    ELSE {c \o s : c \in alphabet, s \in StringsOfLen(alphabet, n - 1)}

StringsUpTo(alphabet, n) == UNION {StringsOfLen(alphabet, m) : m \in 0..n}

\* keys: two letters and the two words made of both
KeyStrings == {"a", "b", "ab", "ba"}

\* values: empty, a key, or a letter no key has
ValStrings == {"", "a", "c"}

InputStrings == StringsUpTo({"a", "b", "c"}, MaxInputLen)

ListStrings == {"a", "ab", "ba", "c"}

Dicts ==
    {d \in UNION {[1..m -> KeyStrings \X ValStrings] : m \in 0..MaxRules} :
        \A i, j \in 1..Len(d) : d[i][1] = d[j][1] => i = j}

Lists == UNION {[1..m -> ListStrings] : m \in 0..MaxListLen}

(***************************************************************************)
(* Region mapping.                                                         *)
(***************************************************************************)
DATA_HIERARCHY_SEPARATOR == "|"

RECURSIVE JoinFrom(_, _, _)
JoinFrom(sep, parts, i) ==
    IF i > Len(parts) THEN ""
    ELSE sep \o parts[i] \o JoinFrom(sep, parts, i + 1)

\* sep.join(parts)
Join(sep, parts) ==
    IF Len(parts) = 0 THEN "" ELSE parts[1] \o JoinFrom(sep, parts, 2)

\* get_openscm_replacement of the region mapping.  ("BUNKERS") is a plain
\* string, so the second test is a substring test.
get_openscm_replacement_region(in_region) ==
    LET world == "World"
        stripped == StrReplace(in_region, "-", "")
        hem == IF StrIn("NH", stripped) THEN "Northern Hemisphere"
               ELSE "Southern Hemisphere"
        land_ocean == IF StrIn("LAND", stripped) THEN "Land" ELSE "Ocean"
    IN  IF in_region \in {"WORLD", "GLOBAL"} THEN world
        ELSE IF StrIn(in_region, "BUNKERS")
        THEN Join(DATA_HIERARCHY_SEPARATOR, <<world, "Bunkers">>)
        ELSE IF StartsWith(in_region, "NH") \/ StartsWith(in_region, "SH")
        THEN IF stripped \in {"NH", "SH"}
             THEN Join(DATA_HIERARCHY_SEPARATOR, <<world, hem>>)
             ELSE Join(DATA_HIERARCHY_SEPARATOR, <<world, hem, land_ocean>>)
        ELSE Join(DATA_HIERARCHY_SEPARATOR, <<world, in_region>>)

magicc_regions ==
    <<"WORLD", "GLOBAL", "OECD90", "ALM", "REF", "ASIA", "R5ASIA", "R5OECD",
      "R5REF", "R5MAF", "R5LAM", "R6OECD90", "R6REF", "R6LAM", "R6MAF",
      "R6ASIA", "NHOCEAN", "SHOCEAN", "NHLAND", "SHLAND", "NH-OCEAN",
      "SH-OCEAN", "NH-LAND", "SH-LAND", "SH", "NH", "BUNKERS">>

\* Variant of RegionStep that never skips a region.
RegionStep_no_skip(acc, inv, i) ==
    DictSet(acc, magicc_regions[i],
            get_openscm_replacement_region(magicc_regions[i]))

\* the body of the loop over _magicc_regions
RegionStep(acc, inv, i) ==
    LET openscm_region == get_openscm_replacement_region(magicc_regions[i])
    IN  IF HasValue(acc, openscm_region) /\ inv
        THEN acc
        ELSE DictSet(acc, magicc_regions[i], openscm_region)

RECURSIVE RegionRange(_, _, _, _)
\* for magicc_region in _magicc_regions: ...
RegionRange(acc, inv, lo, hi) ==
    IF lo > hi THEN acc
    ELSE IF lo = hi THEN RegionStep(acc, inv, lo)
    ELSE LET mid == (lo + hi) \div 2
             left == RegionRange(acc, inv, lo, mid)
         IN  IF Evaluated(left) THEN RegionRange(left, inv, mid + 1, hi)
             ELSE left

get_magicc_region_to_openscm_region_mapping(inv) ==
    LET r == RegionRange(<<>>, inv, 1, Len(magicc_regions))
    IN  IF inv THEN InvertDict(r) ELSE r

MAGICC_REGION_TO_OPENSCM_REGION_MAPPING ==
    get_magicc_region_to_openscm_region_mapping(FALSE)

OPENSCM_REGION_TO_MAGICC_REGION_MAPPING ==
    get_magicc_region_to_openscm_region_mapping(TRUE)

convert_magicc_region_to_openscm_region(regions, inv) ==
    IF inv
    THEN replace_from_replacement_dict(
             regions, OPENSCM_REGION_TO_MAGICC_REGION_MAPPING, FALSE)
    ELSE replace_from_replacement_dict(
             regions, MAGICC_REGION_TO_OPENSCM_REGION_MAPPING, FALSE)

\* arguments of the region converter: a code, or a name the forward
\* mapping produces
RegionInputs ==
    {magicc_regions[i] : i \in 1..Len(magicc_regions)}
    \cup {MAGICC_REGION_TO_OPENSCM_REGION_MAPPING[i][2] :
            i \in 1..Len(MAGICC_REGION_TO_OPENSCM_REGION_MAPPING)}

(***************************************************************************)
(* MAGICC7 to openscm variable mapping.                                    *)
(***************************************************************************)
Digits == "0123456789"

RECURSIVE IntToStr(_)
\* "{}".format(n), n >= 0
IntToStr(n) ==
    IF n < 10 THEN SubSeq(Digits, n + 1, n + 1)
    ELSE IntToStr(n \div 10) \o SubSeq(Digits, (n % 10) + 1, (n % 10) + 1)

RECURSIVE ZeroPad(_, _)
ZeroPad(s, width) == IF Len(s) >= width THEN s ELSE ZeroPad("0" \o s, width)

\* "{0:03d}".format(n), n >= 0
Format03d(n) == ZeroPad(IntToStr(n), 3)

\* s.split(sep)[0], sep a single character
SplitFirst(s, sep) ==
    IF StrIn(sep, s)
    THEN LET i == CHOOSE i \in 1..Len(s) :
                    /\ SubSeq(s, i, i) = sep
                    /\ \A j \in 1..(i - 1) : SubSeq(s, j, j) # sep
         IN  SubSeq(s, 1, i - 1)
    ELSE s

\* s[:-1]
DropLast(s) == SubSeq(s, 1, Len(s) - 1)

ValueError == "ValueError: This shouldn't happen"

case_adjustments ==
    <<<<"SOX", "SOx">>, <<"NOX", "NOx">>, <<"HFC134A", "HFC134a">>,
      <<"HFC143A", "HFC143a">>, <<"HFC152A", "HFC152a">>,
      <<"HFC227EA", "HFC227ea">>, <<"HFC236FA", "HFC236fa">>,
      <<"HFC245FA", "HFC245fa">>, <<"HFC365MFC", "HFC365mfc">>,
      <<"HCFC141B", "HCFC141b">>, <<"HCFC142B", "HCFC142b">>,
      <<"CH3CCL3", "CH3CCl3">>, <<"CCL4", "CCl4">>, <<"CH3CL", "CH3Cl">>,
      <<"CH2CL2", "CH2Cl2">>, <<"CHCL3", "CHCl3">>, <<"CH3BR", "CH3Br">>,
      <<"HALON1211", "Halon1211">>, <<"HALON1301", "Halon1301">>,
      <<"HALON2402", "Halon2402">>, <<"HALON1202", "Halon1202">>,
      <<"SOLAR", "Solar">>, <<"VOLCANIC", "Volcanic">>>>

\* Variant of get_openscm_replacement without the HCFC141B/HCFC142B case.
get_openscm_replacement_variable_no_edge_case(in_var) ==
    LET prefix == IF EndsWith(in_var, "_EMIS") THEN "Emissions"
                  ELSE IF EndsWith(in_var, "_CONC")
                  THEN "Atmospheric Concentrations"
                  ELSE IF EndsWith(in_var, "_RF") THEN "Radiative Forcing"
                  ELSE IF EndsWith(in_var, "_OT") THEN "Optical Thickness"
                  ELSE ValueError
        variable == SplitFirst(in_var, "_")
        labelled ==
            IF EndsWith(variable, "I")
            THEN Join(DATA_HIERARCHY_SEPARATOR,
                      <<DropLast(variable), "MAGICC Fossil and Industrial">>)
            ELSE IF EndsWith(variable, "B")
            THEN Join(DATA_HIERARCHY_SEPARATOR,
                      <<DropLast(variable), "MAGICC AFOLU">>)
            ELSE variable
        adjusted ==
            replace_from_replacement_dict(Str(labelled), case_adjustments, FALSE).val
    IN  IF prefix = ValueError THEN ValueError
        ELSE Join(DATA_HIERARCHY_SEPARATOR, <<prefix, adjusted>>)

\* get_openscm_replacement of the variable mapping; the raised ValueError
\* is the returned value
get_openscm_replacement_variable(in_var) ==
    LET prefix == IF EndsWith(in_var, "_EMIS") THEN "Emissions"
                  ELSE IF EndsWith(in_var, "_CONC")
                  THEN "Atmospheric Concentrations"
                  ELSE IF EndsWith(in_var, "_RF") THEN "Radiative Forcing"
                  ELSE IF EndsWith(in_var, "_OT") THEN "Optical Thickness"
                  ELSE ValueError
        variable == SplitFirst(in_var, "_")
        edge_case_B == Upper(variable) \in {"HCFC141B", "HCFC142B"}
        labelled ==
            IF EndsWith(variable, "I")
            THEN Join(DATA_HIERARCHY_SEPARATOR,
                      <<DropLast(variable), "MAGICC Fossil and Industrial">>)
            ELSE IF EndsWith(variable, "B") /\ ~edge_case_B
            THEN Join(DATA_HIERARCHY_SEPARATOR,
                      <<DropLast(variable), "MAGICC AFOLU">>)
            ELSE variable
        adjusted ==
            replace_from_replacement_dict(Str(labelled), case_adjustments, FALSE).val
    IN  IF prefix = ValueError THEN ValueError
        ELSE Join(DATA_HIERARCHY_SEPARATOR, <<prefix, adjusted>>)

magicc7_suffixes == <<"_EMIS", "_CONC", "_RF", "_OT">>

\* magicc7_emissions_units.magicc_variable: the base names of the variable
\* catalog, read from the data package
magicc_variable ==
    <<"CO2I", "CO2B", "CH4", "SOX", "NOX", "NMVOC", "BC", "OC", "HFC134A",
      "HCFC141B", "HCFC142B", "CH3CCL3", "HALON1211">>

magicc7_base_vars == magicc_variable \o <<"SOLAR", "VOLCANIC">>

\* [base_var + suffix for base_var in magicc7_base_vars
\*                     for suffix in magicc7_suffixes]
magicc7_vars ==
    [n \in 1..(Len(magicc7_base_vars) * Len(magicc7_suffixes)) |->
        magicc7_base_vars[((n - 1) \div Len(magicc7_suffixes)) + 1]
            \o magicc7_suffixes[((n - 1) % Len(magicc7_suffixes)) + 1]]

RECURSIVE Magicc7Range(_, _, _)
\* {m7v: get_openscm_replacement(m7v) for m7v in magicc7_vars}; an
\* exception raised for one of the variables ends the construction
Magicc7Range(acc, lo, hi) ==
    IF lo > hi THEN acc
    ELSE IF lo = hi
    THEN IF acc = ValueError
            \/ get_openscm_replacement_variable(magicc7_vars[lo]) = ValueError
         THEN ValueError
         ELSE DictSet(acc, magicc7_vars[lo],
                      get_openscm_replacement_variable(magicc7_vars[lo]))
    ELSE LET mid == (lo + hi) \div 2
             left == Magicc7Range(acc, lo, mid)
         IN  IF Evaluated(left) THEN Magicc7Range(left, mid + 1, hi)
             ELSE left

RECURSIVE UpdateRange(_, _, _, _)
\* acc.update(other), for the items lo..hi of other
UpdateRange(acc, other, lo, hi) ==
    IF lo > hi THEN acc
    ELSE IF lo = hi THEN DictSet(acc, other[lo][1], other[lo][2])
    ELSE LET mid == (lo + hi) \div 2
             left == UpdateRange(acc, other, lo, mid)
         IN  IF Evaluated(left) THEN UpdateRange(left, other, mid + 1, hi)
             ELSE left

DictUpdate(acc, other) == UpdateRange(acc, other, 1, Len(other))

agg_ocean_heat_top == "Aggregated Ocean Heat Content"

heat_content_aggreg_depths ==
    [i \in 1..3 |->
        <<"HEATCONTENT_AGGREG_DEPTH" \o IntToStr(i),
          agg_ocean_heat_top \o DATA_HIERARCHY_SEPARATOR \o "Depth "
              \o IntToStr(i)>>]

ocean_temp_layer ==
    [i \in 1..MaxLayer |->
        <<"OCEAN_TEMP_LAYER_" \o Format03d(i),
          "Ocean Temperature" \o DATA_HIERARCHY_SEPARATOR \o "Layer "
              \o IntToStr(i)>>]

get_magicc7_to_openscm_variable_mapping(inv) ==
    LET r0 == Magicc7Range(<<>>, 1, Len(magicc7_vars))
        r1 == DictUpdate(r0, <<<<"SURFACE_TEMP", "Surface Temperature">>>>)
        r2 == DictUpdate(r1, heat_content_aggreg_depths)
        r3 == DictUpdate(r2, <<<<"HEATCONTENT_AGGREG_TOTAL", agg_ocean_heat_top>>>>)
        r4 == DictUpdate(r3, ocean_temp_layer)
    IN  IF r0 = ValueError THEN ValueError
        ELSE IF inv THEN InvertDict(r4) ELSE r4

MAGICC7_TO_OPENSCM_VARIABLES_MAPPING ==
    get_magicc7_to_openscm_variable_mapping(FALSE)

OPENSCM_TO_MAGICC7_VARIABLES_MAPPING ==
    get_magicc7_to_openscm_variable_mapping(TRUE)

convert_magicc7_to_openscm_variables(variables, inv) ==
    IF inv
    THEN replace_from_replacement_dict(
             variables, OPENSCM_TO_MAGICC7_VARIABLES_MAPPING, FALSE)
    ELSE replace_from_replacement_dict(
             variables, MAGICC7_TO_OPENSCM_VARIABLES_MAPPING, FALSE)

\* arguments of the MAGICC7 converter: a MAGICC7 code for the forward
\* direction, an openscm name for the inverse direction
Magicc7Inputs(inv) ==
    IF inv
    THEN {MAGICC7_TO_OPENSCM_VARIABLES_MAPPING[i][2] :
            i \in 1..Len(MAGICC7_TO_OPENSCM_VARIABLES_MAPPING)}
    ELSE {MAGICC7_TO_OPENSCM_VARIABLES_MAPPING[i][1] :
            i \in 1..Len(MAGICC7_TO_OPENSCM_VARIABLES_MAPPING)}

(***************************************************************************)
(* MAGICC6 to MAGICC7 variable mapping.                                    *)
(***************************************************************************)
magicc6_vars ==
    <<"FossilCO2", "OtherCO2", "SOx", "NOx", "HFC43-10", "HFC-43-10",
      "HFC134a", "HFC143a", "HFC227ea", "HFC245fa", "CFC-11", "CFC-12",
      "CFC-113", "CFC-114", "CFC-115", "CCl4", "CH3CCl3", "HCFC-22",
      "HFC-23", "HFC-32", "HFC-125", "HFC-134a", "HFC-143a", "HCFC-141b",
      "HCFC-142b", "HFC-227ea", "HFC-245ca", "Halon 1211", "Halon 1202",
      "Halon 1301", "Halon 2402", "Halon1211", "Halon1202", "Halon1301",
      "Halon2402", "CH3Br", "CH3Cl">>

special_case_replacements ==
    <<<<"FossilCO2", "CO2I">>, <<"OtherCO2", "CO2B">>,
      <<"HFC-245ca", "HFC245FA">>>>

\* the body of the loop over magicc6_vars
Magicc6Step(acc, inv, i) ==
    LET m6v == magicc6_vars[i]
        m7v == Upper(StrReplace(StrReplace(m6v, "-", ""), " ", ""))
    IN  IF HasKey(special_case_replacements, m6v)
        THEN DictSet(acc, m6v, DictGet(special_case_replacements, m6v))
        ELSE IF HasValue(acc, m7v) /\ inv
        THEN acc
        ELSE DictSet(acc, m6v, m7v)

RECURSIVE Magicc6Range(_, _, _, _)
\* for m6v in magicc6_vars: ...
Magicc6Range(acc, inv, lo, hi) ==
    IF lo > hi THEN acc
    ELSE IF lo = hi THEN Magicc6Step(acc, inv, lo)
    ELSE LET mid == (lo + hi) \div 2
             left == Magicc6Range(acc, inv, lo, mid)
         IN  IF Evaluated(left) THEN Magicc6Range(left, inv, mid + 1, hi)
             ELSE left

\* Variant of the MAGICC6 builder that returns the dictionary as built,
\* forgetting to invert it.
get_magicc6_to_magicc7_variable_mapping_not_inverted(inv) ==
    Magicc6Range(<<>>, inv, 1, Len(magicc6_vars))

get_magicc6_to_magicc7_variable_mapping(inv) ==
    LET r == Magicc6Range(<<>>, inv, 1, Len(magicc6_vars))
    IN  IF inv THEN InvertDict(r) ELSE r

MAGICC6_TO_MAGICC7_VARIABLES_MAPPING ==
    get_magicc6_to_magicc7_variable_mapping(FALSE)

MAGICC7_TO_MAGICC6_VARIABLES_MAPPING ==
    get_magicc6_to_magicc7_variable_mapping(TRUE)

convert_magicc6_to_magicc7_variables(variables, inv) ==
    IF inv
    THEN replace_from_replacement_dict(
             variables, MAGICC7_TO_MAGICC6_VARIABLES_MAPPING, FALSE)
    ELSE replace_from_replacement_dict(
             variables, MAGICC6_TO_MAGICC7_VARIABLES_MAPPING, FALSE)

\* arguments of the MAGICC6 converter: a MAGICC6 name, or a MAGICC7 code
\* the forward mapping produces
Magicc6Inputs ==
    {magicc6_vars[i] : i \in 1..Len(magicc6_vars)}
    \cup {MAGICC6_TO_MAGICC7_VARIABLES_MAPPING[i][2] :
            i \in 1..Len(MAGICC6_TO_MAGICC7_VARIABLES_MAPPING)}

(***************************************************************************)
(* State machine.                                                          *)
(***************************************************************************)
Init ==
    /\ pc = "idle"
    /\ fn = "none"
    /\ inputs = None
    /\ replacements = <<>>
    /\ inverse = FALSE
    /\ ret = None

Call(f, in, d, inv) ==
    /\ pc' = "called"
    /\ fn' = f
    /\ inputs' = in
    /\ replacements' = d
    /\ inverse' = inv
    /\ ret' = None

\* _replace_from_replacement_dict(s, d, inverse) on a single string
CallReplaceStr ==
    /\ pc = "idle"
    /\ \E s \in InputStrings, d \in Dicts, inv \in BOOLEAN :
          Call("replace_from_replacement_dict", Str(s), d, inv)

\* _replace_from_replacement_dict(l, d) on a list of strings
CallReplaceList ==
    /\ pc = "idle"
    /\ \E l \in Lists, d \in Dicts :
          Call("replace_from_replacement_dict", List(l), d, FALSE)

ReturnReplace ==
    /\ pc = "called"
    /\ fn = "replace_from_replacement_dict"
    /\ LET frame == replace_from_replacement_dict_frame(inputs, replacements, inverse)
       IN  /\ ret' = frame.ret
           /\ inputs' = frame.inputs
           /\ replacements' = frame.replacements
    /\ pc' = "returned"
    /\ UNCHANGED <<fn, inverse>>

\* The caller drops the returned value; the module is ready for the next call.
Reset ==
    /\ pc = "returned"
    /\ pc' = "idle"
    /\ fn' = "none"
    /\ inputs' = None
    /\ replacements' = <<>>
    /\ inverse' = FALSE
    /\ ret' = None

CallGetRegionMapping ==
    /\ pc = "idle"
    /\ \E inv \in BOOLEAN :
          Call("get_magicc_region_to_openscm_region_mapping", None, <<>>, inv)

ReturnGetRegionMapping ==
    /\ pc = "called"
    /\ fn = "get_magicc_region_to_openscm_region_mapping"
    /\ ret' = Dict(get_magicc_region_to_openscm_region_mapping(inverse))
    /\ pc' = "returned"
    /\ UNCHANGED <<fn, inputs, replacements, inverse>>

CallConvertRegion ==
    /\ pc = "idle"
    /\ \E r \in RegionInputs, inv \in BOOLEAN :
          Call("convert_magicc_region_to_openscm_region", Str(r), <<>>, inv)

ReturnConvertRegion ==
    /\ pc = "called"
    /\ fn = "convert_magicc_region_to_openscm_region"
    /\ ret' = convert_magicc_region_to_openscm_region(inputs, inverse)
    /\ pc' = "returned"
    /\ UNCHANGED <<fn, inputs, replacements, inverse>>

NextRegion ==
    \/ CallGetRegionMapping
    \/ ReturnGetRegionMapping
    \/ CallConvertRegion
    \/ ReturnConvertRegion
    \/ Reset

SpecRegion == Init /\ [][NextRegion]_vars

CallGetMagicc6Mapping ==
    /\ pc = "idle"
    /\ \E inv \in BOOLEAN :
          Call("get_magicc6_to_magicc7_variable_mapping", None, <<>>, inv)

ReturnGetMagicc6Mapping ==
    /\ pc = "called"
    /\ fn = "get_magicc6_to_magicc7_variable_mapping"
    /\ ret' = Dict(get_magicc6_to_magicc7_variable_mapping(inverse))
    /\ pc' = "returned"
    /\ UNCHANGED <<fn, inputs, replacements, inverse>>

CallConvertMagicc6 ==
    /\ pc = "idle"
    /\ \E v \in Magicc6Inputs, inv \in BOOLEAN :
          Call("convert_magicc6_to_magicc7_variables", Str(v), <<>>, inv)

ReturnConvertMagicc6 ==
    /\ pc = "called"
    /\ fn = "convert_magicc6_to_magicc7_variables"
    /\ ret' = convert_magicc6_to_magicc7_variables(inputs, inverse)
    /\ pc' = "returned"
    /\ UNCHANGED <<fn, inputs, replacements, inverse>>

NextMagicc6 ==
    \/ CallGetMagicc6Mapping
    \/ ReturnGetMagicc6Mapping
    \/ CallConvertMagicc6
    \/ ReturnConvertMagicc6
    \/ Reset

SpecMagicc6 == Init /\ [][NextMagicc6]_vars

CallGetMagicc7Mapping ==
    /\ pc = "idle"
    /\ \E inv \in BOOLEAN :
          Call("get_magicc7_to_openscm_variable_mapping", None, <<>>, inv)

ReturnGetMagicc7Mapping ==
    /\ pc = "called"
    /\ fn = "get_magicc7_to_openscm_variable_mapping"
    /\ ret' = Dict(get_magicc7_to_openscm_variable_mapping(inverse))
    /\ pc' = "returned"
    /\ UNCHANGED <<fn, inputs, replacements, inverse>>

CallConvertMagicc7 ==
    /\ pc = "idle"
    /\ \E inv \in BOOLEAN :
          \E v \in Magicc7Inputs(inv) :
             Call("convert_magicc7_to_openscm_variables", Str(v), <<>>, inv)

ReturnConvertMagicc7 ==
    /\ pc = "called"
    /\ fn = "convert_magicc7_to_openscm_variables"
    /\ ret' = convert_magicc7_to_openscm_variables(inputs, inverse)
    /\ pc' = "returned"
    /\ UNCHANGED <<fn, inputs, replacements, inverse>>

NextMagicc7 ==
    \/ CallGetMagicc7Mapping
    \/ ReturnGetMagicc7Mapping
    \/ CallConvertMagicc7
    \/ ReturnConvertMagicc7
    \/ Reset

SpecMagicc7 == Init /\ [][NextMagicc7]_vars

NextEngine ==
    \/ CallReplaceStr
    \/ CallReplaceList
    \/ ReturnReplace
    \/ Reset

SpecEngine == Init /\ [][NextEngine]_vars

Next ==
    \/ CallReplaceStr
    \/ CallReplaceList
    \/ ReturnReplace
    \/ CallGetRegionMapping
    \/ ReturnGetRegionMapping
    \/ CallConvertRegion
    \/ ReturnConvertRegion
    \/ CallGetMagicc7Mapping
    \/ ReturnGetMagicc7Mapping
    \/ CallConvertMagicc7
    \/ ReturnConvertMagicc7
    \/ CallGetMagicc6Mapping
    \/ ReturnGetMagicc6Mapping
    \/ CallConvertMagicc6
    \/ ReturnConvertMagicc6
    \/ Reset

Spec == Init /\ [][Next]_vars


Returned(f) == pc = "returned" /\ fn = f

(***************************************************************************)
(* Properties of the replacement engine.                                   *)
(***************************************************************************)
\* k is a key of d and some other key of d is a proper substring of k
HasShorterKey(d, k) ==
    /\ HasKey(d, k)
    /\ \E i \in 1..Len(d) : d[i][1] # k /\ StrIn(d[i][1], k)

\* no value of d contains a key of d
NoValueContainsKey(d) ==
    \A i, j \in 1..Len(d) : ~StrIn(d[i][1], d[j][2])

\* C1: substring safety.  When no value of the dictionary contains a key and
\* the input is a key K that has other keys as proper substrings, the call
\* returns dictionary[K].
C1_SubstringSafety ==
    (/\ Returned("replace_from_replacement_dict")
     /\ inputs.kind = "str"
     /\ ~inverse
     /\ NoValueContainsKey(replacements)
     /\ HasShorterKey(replacements, inputs.val))
    => ret = Str(DictGet(replacements, inputs.val))

\* C4 as stated: an input string that is not a key of the dictionary is
\* returned unchanged.
C4_NotAKeyUnchanged ==
    (/\ Returned("replace_from_replacement_dict")
     /\ inputs.kind = "str"
     /\ ~inverse
     /\ ~HasKey(replacements, inputs.val))
    => ret = inputs

NoKeyOccursIn(d, s) == \A i \in 1..Len(d) : ~StrIn(d[i][1], s)

\* C4 (amended): an input string in which no key of the dictionary occurs
\* as a substring is returned unchanged.
C4_NoKeyOccursUnchanged ==
    (/\ Returned("replace_from_replacement_dict")
     /\ inputs.kind = "str"
     /\ ~inverse
     /\ NoKeyOccursIn(replacements, inputs.val))
    => ret = inputs

C4_Witness ==
    /\ Returned("replace_from_replacement_dict")
    /\ inputs.kind = "str"
    /\ ~inverse
    /\ Len(replacements) = MaxRules
    /\ Len(inputs.val) = MaxInputLen
    /\ NoKeyOccursIn(replacements, inputs.val)
    /\ ret = inputs

\* the first key of d, in key order, whose value is v
FirstKeyOf(d, v) ==
    d[CHOOSE i \in 1..Len(d) :
        d[i][2] = v /\ \A j \in 1..(i - 1) : d[j][2] # v][1]

\* C5: with inverse=True the dictionary used maps every value to the first
\* key, in the original key order, that has this value; a dictionary of two
\* keys with one value rewrites that value to the first key.
C5_InverseFirstKeyWins ==
    (Returned("replace_from_replacement_dict") /\ inverse)
    => /\ \A i \in 1..Len(replacements) :
            DictGet(InvertDict(replacements), replacements[i][2])
                = FirstKeyOf(replacements, replacements[i][2])
       /\ (/\ Len(replacements) = 2
           /\ replacements[1][2] = replacements[2][2]
           /\ inputs = Str(replacements[1][2])
           /\ ~StrIn(replacements[1][2], replacements[1][1]))
          => ret = Str(replacements[1][1])

\* C9: a list input comes back as a list of the same length whose i-th
\* element is the result of the call on the i-th string alone, and the call
\* leaves the caller's list and dictionary as they were.
C9_ListElementwiseAndFrame ==
    [][(/\ pc = "called"
        /\ fn = "replace_from_replacement_dict"
        /\ inputs.kind = "list")
       => (/\ inputs' = inputs
           /\ replacements' = replacements
           /\ ret'.kind = "list"
           /\ Len(ret'.val) = Len(inputs.val)
           /\ \A i \in 1..Len(inputs.val) :
                 Str(ret'.val[i]) = replace_from_replacement_dict(
                                        Str(inputs.val[i]), replacements, FALSE))]_vars

C9_Witness ==
    /\ Returned("replace_from_replacement_dict")
    /\ inputs.kind = "list"
    /\ Len(inputs.val) = MaxListLen
    /\ Len(replacements) = MaxRules
    /\ \A i \in 1..Len(inputs.val) : ret.val[i] # inputs.val[i]
    /\ ret.val[1] # ret.val[2]

(***************************************************************************)
(* Properties of the region mapping.                                       *)
(***************************************************************************)
\* the canonical name of a region code by the precedence rules
CanonicalRegionName(c) ==
    LET hemisphere == IF StartsWith(c, "NH") THEN "World|Northern Hemisphere"
                      ELSE "World|Southern Hemisphere"
    IN  IF c = "WORLD" \/ c = "GLOBAL" THEN "World"
        ELSE IF c = "BUNKERS" THEN "World|Bunkers"
        ELSE IF StartsWith(c, "NH") \/ StartsWith(c, "SH")
        THEN IF c = "NH" \/ c = "SH" THEN hemisphere
             ELSE IF EndsWith(c, "LAND") THEN hemisphere \o "|Land"
             ELSE hemisphere \o "|Ocean"
        ELSE "World|" \o c

IsRegionCode(c) == \E i \in 1..Len(magicc_regions) : magicc_regions[i] = c

\* C6: the region converter takes every code of the vocabulary to its
\* canonical name, the codes that are substrings of other codes included.
C6_RegionForward ==
    (/\ Returned("convert_magicc_region_to_openscm_region")
     /\ ~inverse
     /\ IsRegionCode(inputs.val))
    => ret = Str(CanonicalRegionName(inputs.val))

C6_Witness ==
    /\ Returned("convert_magicc_region_to_openscm_region")
    /\ ~inverse
    /\ inputs = Str("R5REF")
    /\ ret = Str("World|R5REF")

\* C7: the inverse region dictionary maps each canonical name to the first
\* code of the vocabulary that produces it ("World" to "WORLD", the
\* hemisphere land and ocean names to the unhyphenated codes); "GLOBAL" and
\* the hyphenated codes are never values; the forward dictionary has all
\* 27 codes as keys.
C7_RegionInverse ==
    Returned("get_magicc_region_to_openscm_region_mapping")
    => IF inverse
       THEN /\ \A i \in 1..Len(magicc_regions) :
                  /\ HasKey(ret.val, CanonicalRegionName(magicc_regions[i]))
                  /\ DictGet(ret.val, CanonicalRegionName(magicc_regions[i]))
                       = magicc_regions[
                           CHOOSE j \in 1..Len(magicc_regions) :
                             /\ CanonicalRegionName(magicc_regions[j])
                                  = CanonicalRegionName(magicc_regions[i])
                             /\ \A k \in 1..(j - 1) :
                                  CanonicalRegionName(magicc_regions[k])
                                    # CanonicalRegionName(magicc_regions[i])]
            /\ DictGet(ret.val, "World") = "WORLD"
            /\ DictGet(ret.val, "World|Northern Hemisphere|Land") = "NHLAND"
            /\ \A v \in {"GLOBAL", "NH-LAND", "NH-OCEAN", "SH-LAND", "SH-OCEAN"} :
                  ~HasValue(ret.val, v)
       ELSE /\ DictKeys(ret.val) = magicc_regions
            /\ Len(ret.val) = 27

C7_Witness ==
    /\ Returned("get_magicc_region_to_openscm_region_mapping")
    /\ inverse
    /\ HasKey(ret.val, "World|Northern Hemisphere|Land")
    /\ HasKey(ret.val, "World")

(***************************************************************************)
(* Properties of the MAGICC6 to MAGICC7 mapping.                           *)
(***************************************************************************)
\* the MAGICC7 code the forward dictionary gives a MAGICC6 name
ForwardImage(m6v) == DictGet(MAGICC6_TO_MAGICC7_VARIABLES_MAPPING, m6v)

\* the first name of magicc6_vars whose forward image is m7v
FirstSpelling(m7v) ==
    magicc6_vars[CHOOSE i \in 1..Len(magicc6_vars) :
        /\ ForwardImage(magicc6_vars[i]) = m7v
        /\ \A j \in 1..(i - 1) : ForwardImage(magicc6_vars[j]) # m7v]

\* C2: the inverse MAGICC6 dictionary maps every MAGICC7 code to the first
\* name of magicc6_vars whose forward image is that code; the later names
\* with that image are keys of the forward dictionary and never values of
\* the inverse one.
C2_Magicc6InverseFirstWins ==
    (Returned("get_magicc6_to_magicc7_variable_mapping") /\ inverse)
    => \A i \in 1..Len(magicc6_vars) :
          LET m6v == magicc6_vars[i]
              m7v == ForwardImage(m6v)
          IN  /\ HasKey(MAGICC6_TO_MAGICC7_VARIABLES_MAPPING, m6v)
              /\ HasKey(ret.val, m7v)
              /\ DictGet(ret.val, m7v) = FirstSpelling(m7v)
              /\ m6v # FirstSpelling(m7v) => ~HasValue(ret.val, m6v)

\* no other name of magicc6_vars has the forward image of m6v
UniqueImage(m6v) ==
    \A i \in 1..Len(magicc6_vars) :
        ForwardImage(magicc6_vars[i]) = ForwardImage(m6v)
            => magicc6_vars[i] = m6v

IsMagicc6Var(v) == \E i \in 1..Len(magicc6_vars) : magicc6_vars[i] = v

\* C3: a MAGICC6 name whose forward image no other name shares comes back
\* from the forward conversion followed by the inverse conversion.
C3_Magicc6RoundTrip ==
    (/\ Returned("convert_magicc6_to_magicc7_variables")
     /\ ~inverse
     /\ IsMagicc6Var(inputs.val)
     /\ UniqueImage(inputs.val))
    => /\ ret = Str(ForwardImage(inputs.val))
       /\ convert_magicc6_to_magicc7_variables(ret, TRUE) = inputs

C3_Witness ==
    /\ Returned("convert_magicc6_to_magicc7_variables")
    /\ ~inverse
    /\ inputs = Str("CFC-113")
    /\ UniqueImage(inputs.val)
    /\ ret = Str("CFC113")
    /\ convert_magicc6_to_magicc7_variables(ret, TRUE) = inputs

(***************************************************************************)
(* Properties of the MAGICC7 to openscm variable mapping.                  *)
(***************************************************************************)
QuantityPrefix(suffix) ==
    IF suffix = "_EMIS" THEN "Emissions"
    ELSE IF suffix = "_CONC" THEN "Atmospheric Concentrations"
    ELSE IF suffix = "_RF" THEN "Radiative Forcing"
    ELSE "Optical Thickness"

\* the name part of a base variable: the label for a trailing I or B, then
\* the case corrections
CanonicalVariableName(base) ==
    LET labelled ==
            IF EndsWith(base, "I")
            THEN DropLast(base) \o "|MAGICC Fossil and Industrial"
            ELSE IF EndsWith(base, "B") /\ base \notin {"HCFC141B", "HCFC142B"}
            THEN DropLast(base) \o "|MAGICC AFOLU"
            ELSE base
    IN  replace_from_replacement_dict(Str(labelled), case_adjustments, FALSE).val

\* C8: the forward variable dictionary maps every base variable with every
\* suffix to "<prefix>|<name>", the prefix given by the suffix and the name
\* by the base variable (trailing I: Fossil and Industrial; trailing B other
\* than HCFC141B/HCFC142B: AFOLU; then the case corrections).
C8_VariableForward ==
    (Returned("get_magicc7_to_openscm_variable_mapping") /\ ~inverse)
    => /\ \A b \in 1..Len(magicc7_base_vars), x \in 1..Len(magicc7_suffixes) :
            LET code == magicc7_base_vars[b] \o magicc7_suffixes[x]
            IN  /\ HasKey(ret.val, code)
                /\ DictGet(ret.val, code)
                     = QuantityPrefix(magicc7_suffixes[x]) \o "|"
                         \o CanonicalVariableName(magicc7_base_vars[b])
       /\ DictGet(ret.val, "CO2I_EMIS")
            = "Emissions|CO2|MAGICC Fossil and Industrial"
       /\ DictGet(ret.val, "SOX_RF") = "Radiative Forcing|SOx"

C8_Witness ==
    /\ Returned("get_magicc7_to_openscm_variable_mapping")
    /\ ~inverse
    /\ DictGet(ret.val, "CO2B_EMIS") = "Emissions|CO2|MAGICC AFOLU"
    /\ DictGet(ret.val, "HCFC141B_CONC") = "Atmospheric Concentrations|HCFC141b"
    /\ DictGet(ret.val, "VOLCANIC_OT") = "Optical Thickness|Volcanic"

LayerCode(i) ==
    "OCEAN_TEMP_LAYER_"
        \o (IF i < 10 THEN "00" ELSE IF i < 100 THEN "0" ELSE "") \o IntToStr(i)

LayerName(i) == "Ocean Temperature|Layer " \o IntToStr(i)

\* C10: the converter takes the zero-padded code of every ocean layer to
\* "Ocean Temperature|Layer <i>", and the inverse converter takes that name
\* back to the code, also when the name is a prefix of other layers' names.
C10_OceanLayerRoundTrip ==
    Returned("convert_magicc7_to_openscm_variables")
    => \A i \in 1..MaxLayer :
          /\ (~inverse /\ inputs = Str(LayerCode(i))) => ret = Str(LayerName(i))
          /\ (inverse /\ inputs = Str(LayerName(i))) => ret = Str(LayerCode(i))

C10_Witness ==
    /\ Returned("convert_magicc7_to_openscm_variables")
    /\ inverse
    /\ inputs = Str("Ocean Temperature|Layer 10")
    /\ ret = Str("OCEAN_TEMP_LAYER_010")
    /\ HasKey(OPENSCM_TO_MAGICC7_VARIABLES_MAPPING, "Ocean Temperature|Layer 1")
    /\ HasKey(OPENSCM_TO_MAGICC7_VARIABLES_MAPPING, "Ocean Temperature|Layer 100")

====
